---------------------------- MODULE Spec2Model ----------------------------
(***************************************************************************)
(* The refreshing installation authenticator of github-app-authenticator:  *)
(* a token slot behind a reader-writer lock, the staleness check, the      *)
(* token exchange and the callers that drive access_token() concurrently.  *)
(* Time is counted in minutes.                                             *)
(***************************************************************************)
EXTENDS Integers, FiniteSets, Sequences, TLC

(* ------------------------------ bounds --------------------------------- *)
NumCallers == 2
MaxTime == 1
MaxMints == 2
MaxSecs == 2
MaxSet == 2

(* ------------------------- program constants --------------------------- *)
SkewMinutes == 5
CREATED == 201
JwtValiditySeconds == 60

Callers == 1..NumCallers
Tokens == {"tok-a", "tok-b"}
NoToken == "<none>"
NoCaller == 0
Keys == {"rsa-2048-pem", "garbage", "rsa-unsignable-pem"}
Statuses == {200, CREATED, 404}
\* how far ahead of the clock the server sets a token's expiry: inside the skew margin, and past it
Leads == {SkewMinutes, SkewMinutes + 1}

VARIABLES
    now,      \* Utc::now(), in minutes
    key,      \* GitHubAppAuthenticator.key
    slot,     \* RefreshingGitHubInstallationAuthenticator.token (the Option behind the RwLock)
    readers,  \* callers holding a read guard of the RwLock
    writer,   \* the caller holding the write guard, or NoCaller
    pc,       \* where each caller is inside access_token()
    obs,      \* what token_expired() saw in the call in progress: "empty", "expired" or "valid"
    seen,     \* the access_token token_expired() found unexpired in the slot, in the call in progress
    res,      \* the Ok value of the caller's request_token(), until it is moved into the slot
    exch,     \* HTTP requests sent by the call in progress
    wrote,    \* the token the call in progress stored into the slot
    ret,      \* what the caller's last access_token() call returned
    prev,     \* the token the caller's last completed call returned from the cache, if it did
    xchg,     \* one token exchange on its own: the response and its outcome
    server,   \* what the server answers: "any" response, or only "short-lived" tokens
    policy,   \* how the RwLock orders waiters: "any" order, or "writers-first"
    app,      \* the GitHubAppAuthenticator of a single-threaded client (its key is the variable key)
    inst,     \* the GitHubInstallationAuthenticator made from it, plain or turned into a refreshing one
    sent,     \* the HTTP requests that client's authenticators have sent, in order
    minted,   \* how many JWTs generate_jwt() has signed for that client
    result,   \* what that client's last call returned
    log,      \* the tracing events of that client's last new(), generate_jwt() or access_token() call
    secs,     \* Utc::now().timestamp(), in seconds, while one generate_jwt() call runs
    claims,   \* that generate_jwt() call: its inputs, its position and the GitHubAppClaims it builds
    wire      \* one TokenRequest and the JSON body it serializes to

\* the state of the single-threaded client, of one generate_jwt() call and of one serialization
appVars == <<app, inst, sent, minted, result, log>>
jwtVars == <<secs, claims>>
soloVars == <<appVars, jwtVars, wire>>

vars == <<now, key, slot, readers, writer, pc, obs, seen, res, exch, wrote, ret, prev, xchg,
          server, policy, soloVars>>

(* ------------------------------ values --------------------------------- *)
\* Result<GitHubInstallationTokenResponse, GitHubAuthenticatorError>
Ok(t, e) == [ok |-> TRUE, err |-> "none", status |-> 0, token |-> t, expires_at |-> e]
Err(e, s) == [ok |-> FALSE, err |-> e, status |-> s, token |-> NoToken, expires_at |-> 0]
NoResult == Err("<no result>", 0)
Cancelled == Err("<dropped>", 0)
Panicked == Err("<panic>", 0)

\* a JSON field of a response body
Field(k, v) == [k |-> k, v |-> v]
Absent == Field("absent", 0)
Malformed == Field("malformed", 0)
Timestamp(t) == Field("timestamp", t)
String(s) == Field("string", s)

NoBody == [json |-> FALSE, token |-> Field("absent", NoToken), expires_at |-> Absent]
Bodies(t) ==
    {NoBody} \cup
    [json : {TRUE},
     token : {String(x) : x \in Tokens} \cup {Field("absent", NoToken), Field("number", NoToken)},
     expires_at : {Timestamp(t + l) : l \in Leads} \cup {Absent, Malformed}]

\* what the HTTP client hands back: send() fails or yields a status, text() fails or yields a body
Response(s, st, tx, b) == [send |-> s, status |-> st, text |-> tx, body |-> b]
Responses(t) ==
    {Response(s, st, tx, b) : s \in {"ok", "error"}, st \in Statuses,
                              tx \in {"ok", "error"}, b \in Bodies(t)}

\* the responses the model's server and transport produce for a request answered at time t:
\* a failed send, each status other than 201 without a body and with a well-formed token
\* body, and 201 with a body that cannot be read, is not JSON, lacks a field, or is well-formed
ServerLeads(m) == IF m = "short-lived" THEN {l \in Leads : l <= SkewMinutes} ELSE Leads
ServerBodies(m, t) ==
    {NoBody, [json |-> TRUE, token |-> Field("absent", NoToken), expires_at |-> Malformed]} \cup
    [json : {TRUE}, token : {String(x) : x \in Tokens},
     expires_at : {Timestamp(t + l) : l \in ServerLeads(m)}]
ServerResponses(m, t) ==
    {Response("error", CREATED, "ok", NoBody), Response("ok", CREATED, "error", NoBody)} \cup
    {Response("ok", st, "ok", b) :
        st \in Statuses \ {CREATED},
        b \in {NoBody, [json |-> TRUE, token |-> String("tok-a"),
                        expires_at |-> Timestamp(t + SkewMinutes + 1)]}} \cup
    {Response("ok", CREATED, "ok", b) : b \in ServerBodies(m, t)}

(* ------------------------------ the code ------------------------------- *)
\* generate_jwt() that hands the key bytes to the signer unparsed
generate_jwt_parse_at_sign(k) ==
    IF k = "rsa-2048-pem" THEN Ok("jwt", 0) ELSE Err("FailedToGenerateJwt", 0)

\* GitHubAppAuthenticator::generate_jwt
generate_jwt(k) ==
    CASE k = "garbage" -> Err("FailedToParseKey", 0)
      [] k = "rsa-unsignable-pem" -> Err("FailedToGenerateJwt", 0)
      [] OTHER -> Ok("jwt", 0)

\* serde_json::from_str::<GitHubInstallationTokenResponse>
from_str(b) ==
    IF b.json /\ b.token.k = "string" /\ b.expires_at.k = "timestamp"
    THEN Ok(b.token.v, b.expires_at.v)
    ELSE Err("serde", 0)

\* request_token with every 2xx status taken for success (response.status().is_success())
request_token_any_2xx(k, r) ==
    LET jwt == generate_jwt(k) IN
    IF ~jwt.ok THEN jwt
    ELSE IF r.send = "error" THEN Err("Client", 0)
    ELSE IF r.status \in 200..299
         THEN IF r.text = "error" THEN Err("Client", 0)
              ELSE LET token == from_str(r.body) IN
                   IF token.ok THEN token
                   ELSE Err("FailedToDecodeAccessTokenResponse", 0)
         ELSE Err("InstallationRequestFailed", r.status)

\* GitHubInstallationAuthenticator::request_token, given the response the client gets
request_token(k, r) ==
    LET jwt == generate_jwt(k) IN
    IF ~jwt.ok THEN jwt
    ELSE IF r.send = "error" THEN Err("Client", 0)
    ELSE IF r.status = CREATED
         THEN IF r.text = "error" THEN Err("Client", 0)
              ELSE LET token == from_str(r.body) IN
                   IF token.ok THEN token
                   ELSE Err("FailedToDecodeAccessTokenResponse", 0)
         ELSE Err("InstallationRequestFailed", r.status)

\* From with the server's expiry kept as it is
From_unadjusted(value) ==
    [access_token |-> value.token, expires_at |-> value.expires_at]

\* impl From<GitHubInstallationTokenResponse> for GitHubInstallationToken
From(value) ==
    [access_token |-> value.token, expires_at |-> value.expires_at - SkewMinutes]

\* a read that does not wait for the writer
CanRead_unguarded == TRUE

\* the RwLock grants a read guard unless a write guard is out (RwLock::read); std leaves the
\* order among waiters open, and a writers-first lock also holds readers back while a
\* writer waits
CanRead ==
    /\ writer = NoCaller
    /\ policy = "writers-first" => \A d \in Callers : pc[d] # "store"

\* the RwLock grants the write guard when no guard at all is out (RwLock::write)
CanWrite == writer = NoCaller /\ readers = {}

\* a read guard that outlives the scope that took it
ReleaseRead_kept(c) == readers

\* dropping the read guard at the end of the scope that took it
ReleaseRead(c) == readers \ {c}

\* token_expired() with the boundary taken for unexpired
token_expired_strict(s, t) == ~s.some \/ s.expires_at < t

\* token_expired() that takes an empty slot for unexpired
token_expired_some_only(s, t) == s.some /\ s.expires_at <= t

\* the expression of token_expired(), evaluated on the slot s at clock reading t
token_expired(s, t) == ~s.some \/ s.expires_at <= t

\* a future that could also be dropped in the middle of the store
SuspensionPoints_in_store == {"awaiting", "storing"}

\* the .await points of access_token(): the only places its future can be dropped
SuspensionPoints == {"awaiting"}

NoResp == [token |-> NoToken, expires_at |-> 0]
RespOf(r) == [token |-> r.token, expires_at |-> r.expires_at]
\* Arc::new(RwLock::new(None)); tokFrom and expFrom remember the response each field was copied from
EmptySlot ==
    [some |-> FALSE, access_token |-> NoToken, expires_at |-> 0,
     tokFrom |-> NoResp, expFrom |-> NoResp]

\* a failure that forgets the cached token
OnFailure_clears(s) == EmptySlot

\* the slot after a failed request_token(): the ? returns before the assignment to the slot
OnFailure(s) == s

(* ----------------------- the app and its clients ------------------------ *)
GITHUB_API_BASE == "https://api.github.com"
Bases == {GITHUB_API_BASE, "http://mock.test"}
DefaultClient == "Client::new()"
Clients == {DefaultClient, "Client::builder().proxy(p).build()"}
AppIds == {12345, 777}
InstallationIds == {67890}
UserAgent == "test-authenticator"

\* GitHubAppAuthenticator::new (the key is kept, unread, in the variable key)
NewApp(app_id, user_agent) ==
    [inner |-> DefaultClient, app_id |-> app_id, base_endpoint |-> GITHUB_API_BASE,
     user_agent |-> user_agent]

\* GitHubInstallationAuthenticator::new
NewInstallation(a, installation_id) ==
    [made |-> TRUE, refreshing |-> FALSE, app |-> a, inner |-> DefaultClient,
     installation_api_endpoint |-> <<a.base_endpoint, "/app/installations/", installation_id,
                                     "/access_tokens">>]

\* no installation authenticator has been made yet
NoInstallation ==
    [made |-> FALSE, refreshing |-> FALSE, app |-> NewApp(0, ""), inner |-> DefaultClient,
     installation_api_endpoint |-> <<>>]

\* a request whose URL is composed, when it is sent, from the base endpoint the app has then
Request_live_base(i, jwt) ==
    [client |-> i.inner,
     url |-> <<app.base_endpoint>> \o SubSeq(i.installation_api_endpoint, 2, 4),
     bearer |-> jwt, user_agent |-> i.app.user_agent]

\* the request request_token() builds: .inner.post(endpoint).bearer_auth(jwt).header(USER_AGENT, ..)
Request(i, jwt) ==
    [client |-> i.inner, url |-> i.installation_api_endpoint, bearer |-> jwt,
     user_agent |-> i.app.user_agent]

\* a JWT signed once and handed out again for every request
Jwt_reused(k, n, duration) == [jwt |-> generate_jwt(k).token, serial |-> 1, validity |-> duration]

\* the JWT a successful generate_jwt(duration) returns, the n-th this client has signed;
\* validity is the duration it was asked for
Jwt(k, n, duration) == [jwt |-> generate_jwt(k).token, serial |-> n, validity |-> duration]

\* a send() that tries again after a failure
send_with_retry(q, req, r) == IF r.send = "error" THEN Append(Append(q, req), req) ELSE Append(q, req)

\* RequestBuilder::send(): one request goes out, whatever comes back
send(q, req, r) == Append(q, req)

\* access_token() keeping the expiry next to the token
PlainResult_whole(out) == out

\* GitHubInstallationAuthenticator::access_token: Ok(request_token(request).await?.token)
PlainResult(out) == IF out.ok THEN Ok(out.token, 0) ELSE Err(out.err, out.status)

(* --------------------- permissions and the token request ---------------- *)
\* the fields of Permissions, in the order of the struct
PermissionFields ==
    {"actions", "administration", "checks", "contents", "deployments", "environments", "issues",
     "metadata", "packages", "pages", "pull_requests", "repository_hooks", "repository_projects",
     "secret_scanning_alerts", "secrets", "security_events", "single_file", "statuses",
     "vulnerability_alerts", "workflows", "members", "organization_administration",
     "organization_custom_roles", "organization_announcement_banners", "organization_hooks",
     "organization_personal_access_tokens", "organization_personal_access_token_requests",
     "organization_plan", "organization_projects", "organization_packages",
     "organization_secrets", "organization_self_hosted_runners", "organization_user_blocking",
     "team_discussions"}
ReadOnly == {"Read"}
WriteOnly == {"Write"}
ReadWrite == {"Read", "Write"}
ReadWriteAdmin == {"Read", "Write", "Admin"}
\* the enum each field of Permissions takes its level from
LevelsOf(f) ==
    CASE f = "organization_plan" -> ReadOnly
      [] f = "workflows" -> WriteOnly
      [] f \in {"repository_projects", "organization_projects"} -> ReadWriteAdmin
      [] OTHER -> ReadWrite

\* Option: None, or Some(v)
None == [some |-> FALSE, v |-> <<>>]
Some(v) == [some |-> TRUE, v |-> v]

\* Permissions::default(), and the values a client reaches from it by assigning fields
DefaultPermissions == [f \in PermissionFields |-> "None"]
Assignments == {fl \in PermissionFields \X ReadWriteAdmin : fl[2] \in LevelsOf(fl[1])}
RECURSIVE Assign(_, _)
Assign(p, s) ==
    IF s = <<>> THEN p ELSE Assign([p EXCEPT ![Head(s)[1]] = Head(s)[2]], Tail(s))
PermissionsUpTo(n) ==
    {Assign(DefaultPermissions, s) : s \in UNION {[1..k -> Assignments] : k \in 0..n}}

\* TokenRequest::default(), and the requests the client builds
DefaultTokenRequest == [permissions |-> None, repositories |-> None]
TokenRequests ==
    [permissions : {None} \cup {Some(p) : p \in PermissionsUpTo(MaxSet)},
     repositories : {None, Some(<<>>), Some(<<1296269>>)}]

\* #[serde(rename_all = "lowercase")] on the level enums
ser_level(l) ==
    CASE l = "Read" -> "read"
      [] l = "Write" -> "write"
      [] l = "Admin" -> "admin"

\* a serialization that writes unset fields as null
ser_permissions_with_nulls(p) ==
    [f \in PermissionFields |-> IF p[f] = "None" THEN "null" ELSE ser_level(p[f])]

\* #[derive(Serialize)] on Permissions with skip_serializing_if = "Option::is_none" on every field
ser_permissions(p) ==
    [f \in {g \in PermissionFields : p[g] # "None"} |-> ser_level(p[f])]

\* #[derive(Serialize)] on TokenRequest: the JSON object of the body
ser_token_request(q) ==
    [k \in {j \in {"permissions", "repositories"} : q[j].some} |->
        IF k = "permissions" THEN ser_permissions(q.permissions.v) ELSE q.repositories.v]

(* ------------------------ tracing events and Debug ---------------------- *)
\* one tracing event: its level, its message and its recorded fields, rendered
Event(level, msg, fields) == [level |-> level, msg |-> msg, fields |-> fields]

\* {:?} of the jsonwebtoken error of EncodingKey::from_rsa_pem and of encode
KeyError(k) == "Error(InvalidKeyFormat)"
SignError(k) == "Error(InvalidRsaKey)"

\* {:?} of the serde_json error of from_str: the first thing in the body that does not fit
serde_error(b) ==
    CASE ~b.json -> "Error(expected value, line: 1, column: 1)"
      [] b.token.k = "absent" -> "Error(missing field token)"
      [] b.token.k # "string" -> "Error(invalid type: integer, expected a string)"
      [] b.expires_at.k = "absent" -> "Error(missing field expires_at)"
      [] OTHER -> "Error(input contains invalid characters)"

\* {:?} of GitHubAppClaims
DebugClaims(iat, exp, iss) ==
    <<"GitHubAppClaims {", "iat:", ToString(iat), "exp:", ToString(exp), "iss:", ToString(iss), "}">>

\* debug!(?app_id, ?user_agent, "Creating app authenticator")
CreatingApp(app_id, user_agent) ==
    Event("DEBUG", "Creating app authenticator",
          {<<"app_id", ToString(app_id)>>, <<"user_agent", user_agent>>})

\* the events of generate_jwt() with key k for the app a at clock reading t (in minutes)
generate_jwt_events(a, k, t, duration) ==
    CASE generate_jwt(k).err = "FailedToParseKey" ->
            {Event("ERROR", "Failed to create JWT key", {<<"err", KeyError(k)>>})}
      [] generate_jwt(k).err = "FailedToGenerateJwt" ->
            {Event("ERROR", "Failed to generate authentication JWT",
                   {<<"claims", ToString(DebugClaims(t * 60, t * 60 + duration, a.app_id))>>,
                    <<"err", SignError(k)>>})}
      [] OTHER -> {}

\* the events of request_token() given the response r the client gets
request_token_events(a, k, t, r) ==
    {Event("INFO", "Requesting installation access token", {})}
    \cup generate_jwt_events(a, k, t, JwtValiditySeconds)
    \cup IF generate_jwt(k).ok /\ r.send = "ok"
         THEN IF r.status = CREATED
              THEN IF r.text = "ok" /\ ~from_str(r.body).ok
                   THEN {Event("ERROR", "Failed to decode installation access token response body",
                               {<<"err", serde_error(r.body)>>})}
                   ELSE {}
              ELSE {Event("ERROR", "Failed to request installation access token",
                          {<<"status", ToString(r.status)>>})}
         ELSE {}

\* impl Debug for GitHubAppAuthenticator; k is the key the value holds
DebugApp(a, k) == <<"GitHubInstallationAuthenticator {", "app_id:", ToString(a.app_id), "}">>

\* #[derive(Debug)] on GitHubInstallationAuthenticator
DebugInstallation(i, k) ==
    <<"GitHubInstallationAuthenticator {", "app:">> \o DebugApp(i.app, k)
    \o <<"inner:", "Client {", i.inner, "}", "installation_api_endpoint:",
         ToString(i.installation_api_endpoint), "}">>

\* a derived Debug for GitHubInstallationToken
DebugToken_derived(t) ==
    <<"GitHubInstallationToken {", "access_token:", t.access_token,
      "expires_at:", ToString(t.expires_at), "}">>

\* impl Debug for GitHubInstallationToken
DebugToken(t) == <<"GitHubInstallationToken {", "expires_at:", ToString(t.expires_at), "}">>

\* #[derive(Debug)] on RefreshingGitHubInstallationAuthenticator, the slot being s
DebugRefreshing(i, k, s) ==
    <<"RefreshingGitHubInstallationAuthenticator {", "authenticator:">>
    \o DebugInstallation(i, k)
    \o <<"request:", "TokenRequest {..}", "token:", "RwLock {", "data:">>
    \o (IF s.some THEN <<"Some(">> \o DebugToken(s) \o <<")">> ELSE <<"None">>)
    \o <<"poisoned:", "false", "..", "}", "}">>

(* ----------------------------- the state ------------------------------- *)
\* the value the slot holds after *self.token.write().unwrap() = Some(From(out))
Stored(out) ==
    [some |-> TRUE, access_token |-> From(out).access_token, expires_at |-> From(out).expires_at,
     tokFrom |-> RespOf(out), expFrom |-> RespOf(out)]

NoAnswer == Response("none", 0, "none", NoBody)
\* what a call of the single-threaded client came to: the operation, its result, the response it got
Outcome(op, out, resp) == [op |-> op, out |-> out, resp |-> resp]
NoOutcome == Outcome("none", NoResult, NoAnswer)

\* no single-threaded client, no generate_jwt() call and no serialization in progress
AppAtRest ==
    /\ app = NewApp(0, "")
    /\ inst = NoInstallation
    /\ sent = <<>>
    /\ minted = 0
    /\ result = NoOutcome
    /\ log = {}
\* GitHubAppClaims and the call that builds them: not started
Claims(at, app_id, duration, iat, exp, iss, out) ==
    [pc |-> at, app_id |-> app_id, duration |-> duration, iat |-> iat, exp |-> exp, iss |-> iss,
     out |-> out]
JwtAtRest == secs = 0 /\ claims = Claims("rest", 0, 0, 0, 0, 0, NoResult)
WireAtRest == wire = [request |-> DefaultTokenRequest, done |-> FALSE, body |-> <<>>]
CallersAtRest ==
    /\ readers = {}
    /\ writer = NoCaller
    /\ pc = [c \in Callers |-> "idle"]
    /\ obs = [c \in Callers |-> "none"]
    /\ seen = [c \in Callers |-> NoToken]
    /\ res = [c \in Callers |-> NoResult]
    /\ exch = [c \in Callers |-> 0]
    /\ wrote = [c \in Callers |-> NoToken]
    /\ ret = [c \in Callers |-> NoResult]
    /\ prev = [c \in Callers |-> NoToken]

Init ==
    /\ now = 0
    /\ key \in Keys
    /\ slot = EmptySlot
    /\ readers = {}
    /\ writer = NoCaller
    /\ pc = [c \in Callers |-> "idle"]
    /\ obs = [c \in Callers |-> "none"]
    /\ seen = [c \in Callers |-> NoToken]
    /\ res = [c \in Callers |-> NoResult]
    /\ exch = [c \in Callers |-> 0]
    /\ wrote = [c \in Callers |-> NoToken]
    /\ ret = [c \in Callers |-> NoResult]
    /\ prev = [c \in Callers |-> NoToken]
    /\ xchg = [resp |-> Response("error", CREATED, "error", NoBody), out |-> NoResult]
    /\ server \in {"any", "short-lived"}
    /\ policy = "any"
    /\ AppAtRest /\ JwtAtRest /\ WireAtRest

\* a caller enters access_token()
Call(c) ==
    /\ pc[c] = "idle"
    /\ pc' = [pc EXCEPT ![c] = "check"]
    /\ ret' = [ret EXCEPT ![c] = NoResult]
    /\ UNCHANGED <<now, key, slot, readers, writer, obs, seen, res, exch, wrote, prev, xchg, server, policy, soloVars>>

\* token_expired(): self.token.read().unwrap()
TokenExpiredLock(c) ==
    /\ pc[c] = "check"
    /\ CanRead
    /\ readers' = readers \cup {c}
    /\ pc' = [pc EXCEPT ![c] = "checking"]
    /\ UNCHANGED <<now, key, slot, writer, obs, seen, res, exch, wrote, ret, prev, xchg, server, policy, soloVars>>

\* token_expired(): the comparison under the read guard and the guard dropped on return;
\* access_token() then either goes to its last line or enters request_token(), which
\* mints the JWT (returning its error through both ?) and sends the POST
TokenExpiredEval(c) ==
    /\ pc[c] = "checking"
    /\ readers' = ReleaseRead(c)
    /\ IF ~token_expired(slot, now)
       THEN /\ obs' = [obs EXCEPT ![c] = "valid"]
            /\ seen' = [seen EXCEPT ![c] = slot.access_token]
            /\ pc' = [pc EXCEPT ![c] = "final"]
            /\ UNCHANGED <<exch, ret, prev>>
       ELSE /\ seen' = seen
            /\ prev' = [prev EXCEPT ![c] = NoToken]
            /\ IF generate_jwt(key).ok
               THEN /\ obs' = [obs EXCEPT ![c] = IF slot.some THEN "expired" ELSE "empty"]
                    /\ exch' = [exch EXCEPT ![c] = @ + 1]
                    /\ pc' = [pc EXCEPT ![c] = "awaiting"]
                    /\ ret' = ret
               ELSE /\ ret' = [ret EXCEPT ![c] = Err(generate_jwt(key).err, generate_jwt(key).status)]
                    /\ pc' = [pc EXCEPT ![c] = "idle"]
                    /\ UNCHANGED <<obs, exch>>
    /\ slot' = IF token_expired(slot, now) /\ ~generate_jwt(key).ok THEN OnFailure(slot) ELSE slot
    /\ UNCHANGED <<now, key, writer, res, wrote, xchg, server, policy, soloVars>>

\* request_token(): send().await? and text().await? resolve and the response is turned
\* into the result; access_token()'s ? returns an error to the caller
ExchangeComplete(c) ==
    /\ pc[c] = "awaiting"
    /\ \E r \in ServerResponses(server, now) :
         LET out == request_token(key, r) IN
         IF out.ok
         THEN /\ res' = [res EXCEPT ![c] = out]
              /\ pc' = [pc EXCEPT ![c] = "store"]
              /\ UNCHANGED <<ret, obs, exch, slot>>
         ELSE /\ ret' = [ret EXCEPT ![c] = Err(out.err, out.status)]
              /\ pc' = [pc EXCEPT ![c] = "idle"]
              /\ obs' = [obs EXCEPT ![c] = "none"]
              /\ exch' = [exch EXCEPT ![c] = 0]
              /\ slot' = OnFailure(slot)
              /\ res' = res
    /\ UNCHANGED <<now, key, readers, writer, seen, wrote, prev, xchg, server, policy, soloVars>>

\* access_token(): *self.token.write().unwrap() = Some(token), the guard taken and the
\* first field of the new value moved in
StoreLock(c) ==
    /\ pc[c] = "store"
    /\ CanWrite
    /\ writer' = c
    /\ slot' = [slot EXCEPT !.some = TRUE,
                            !.access_token = From(res[c]).access_token,
                            !.tokFrom = RespOf(res[c])]
    /\ pc' = [pc EXCEPT ![c] = "storing"]
    /\ UNCHANGED <<now, key, readers, obs, seen, res, exch, wrote, ret, prev, xchg, server, policy, soloVars>>

\* access_token(): the rest of the new value moved in and the write guard dropped
StoreFinish(c) ==
    /\ pc[c] = "storing"
    /\ slot' = [slot EXCEPT !.expires_at = From(res[c]).expires_at,
                            !.expFrom = RespOf(res[c])]
    /\ writer' = NoCaller
    /\ wrote' = [wrote EXCEPT ![c] = res[c].token]
    /\ res' = [res EXCEPT ![c] = NoResult]
    /\ pc' = [pc EXCEPT ![c] = "final"]
    /\ UNCHANGED <<now, key, readers, obs, seen, exch, ret, prev, xchg, server, policy, soloVars>>

\* access_token(): self.token.read().unwrap() of the last line
FinalReadLock(c) ==
    /\ pc[c] = "final"
    /\ CanRead
    /\ readers' = readers \cup {c}
    /\ pc' = [pc EXCEPT ![c] = "reading"]
    /\ UNCHANGED <<now, key, slot, writer, obs, seen, res, exch, wrote, ret, prev, xchg, server, policy, soloVars>>

\* access_token(): .as_ref().unwrap().access_token.clone(), the guard dropped, Ok returned
FinalReadClone(c) ==
    /\ pc[c] = "reading"
    /\ ret' = [ret EXCEPT ![c] = IF slot.some THEN Ok(slot.access_token, 0) ELSE Panicked]
    /\ readers' = ReleaseRead(c)
    /\ prev' = [prev EXCEPT ![c] = IF obs[c] = "valid" /\ slot.some THEN slot.access_token ELSE NoToken]
    /\ obs' = [obs EXCEPT ![c] = "none"]
    /\ seen' = [seen EXCEPT ![c] = NoToken]
    /\ exch' = [exch EXCEPT ![c] = 0]
    /\ wrote' = [wrote EXCEPT ![c] = NoToken]
    /\ pc' = [pc EXCEPT ![c] = "idle"]
    /\ UNCHANGED <<now, key, slot, writer, res, xchg, server, policy, soloVars>>

\* the caller drops the future of access_token() while it is suspended
Cancel(c) ==
    /\ pc[c] \in SuspensionPoints
    /\ ret' = [ret EXCEPT ![c] = Cancelled]
    /\ obs' = [obs EXCEPT ![c] = "none"]
    /\ exch' = [exch EXCEPT ![c] = 0]
    /\ pc' = [pc EXCEPT ![c] = "idle"]
    /\ UNCHANGED <<now, key, slot, readers, writer, seen, res, wrote, prev, xchg, server, policy, soloVars>>

\* the wall clock advances
Tick ==
    /\ now < MaxTime
    /\ now' = now + 1
    /\ UNCHANGED <<key, slot, readers, writer, pc, obs, seen, res, exch, wrote, ret, prev, xchg, server, policy, soloVars>>

Next ==
    \/ \E c \in Callers : Call(c)
    \/ \E c \in Callers : TokenExpiredLock(c)
    \/ \E c \in Callers : TokenExpiredEval(c)
    \/ \E c \in Callers : ExchangeComplete(c)
    \/ \E c \in Callers : StoreLock(c)
    \/ \E c \in Callers : StoreFinish(c)
    \/ \E c \in Callers : FinalReadLock(c)
    \/ \E c \in Callers : FinalReadClone(c)
    \/ \E c \in Callers : Cancel(c)
    \/ Tick

Spec == Init /\ [][Next]_vars

\* the scheduler runs every caller that can take a step, every request that was sent is
\* answered or dropped, and the lock serves every waiter that it can serve again and again
Fairness ==
    \A c \in Callers :
        /\ SF_vars(TokenExpiredLock(c))
        /\ WF_vars(TokenExpiredEval(c))
        /\ WF_vars(ExchangeComplete(c))
        /\ SF_vars(StoreLock(c))
        /\ WF_vars(StoreFinish(c))
        /\ SF_vars(FinalReadLock(c))
        /\ WF_vars(FinalReadClone(c))

InitLive ==
    /\ now = 0
    /\ key \in Keys
    /\ slot = EmptySlot
    /\ readers = {}
    /\ writer = NoCaller
    /\ pc = [c \in Callers |-> "idle"]
    /\ obs = [c \in Callers |-> "none"]
    /\ seen = [c \in Callers |-> NoToken]
    /\ res = [c \in Callers |-> NoResult]
    /\ exch = [c \in Callers |-> 0]
    /\ wrote = [c \in Callers |-> NoToken]
    /\ ret = [c \in Callers |-> NoResult]
    /\ prev = [c \in Callers |-> NoToken]
    /\ xchg = [resp |-> Response("error", CREATED, "error", NoBody), out |-> NoResult]
    /\ server = "any"
    /\ policy = "writers-first"
    /\ AppAtRest /\ JwtAtRest /\ WireAtRest

SpecLive == InitLive /\ [][Next]_vars /\ Fairness

(* --------------------- one token exchange on its own ------------------- *)
InitExchange ==
    /\ now = 0
    /\ key \in Keys
    /\ slot = EmptySlot
    /\ readers = {}
    /\ writer = NoCaller
    /\ pc = [c \in Callers |-> "idle"]
    /\ obs = [c \in Callers |-> "none"]
    /\ seen = [c \in Callers |-> NoToken]
    /\ res = [c \in Callers |-> NoResult]
    /\ exch = [c \in Callers |-> 0]
    /\ wrote = [c \in Callers |-> NoToken]
    /\ ret = [c \in Callers |-> NoResult]
    /\ prev = [c \in Callers |-> NoToken]
    /\ xchg \in {[resp |-> r, out |-> NoResult] : r \in Responses(0)}
    /\ server = "any"
    /\ policy = "any"
    /\ AppAtRest /\ JwtAtRest /\ WireAtRest

\* request_token() applied to the response
Exchange ==
    /\ xchg.out = NoResult
    /\ xchg' = [xchg EXCEPT !.out = request_token(key, xchg.resp)]
    /\ UNCHANGED <<now, key, slot, readers, writer, pc, obs, seen, res, exch, wrote, ret, prev,
                   server, policy, soloVars>>

NextExchange == Exchange

SpecExchange == InitExchange /\ [][NextExchange]_vars

(* ---------------- a single-threaded client of the library --------------- *)
callerVars == <<readers, writer, pc, obs, seen, res, exch, wrote, ret, prev>>
Durations == {0 - JwtValiditySeconds, 0, JwtValiditySeconds}

\* the state after GitHubAppAuthenticator::new(app_id, key, user_agent)
InitApp ==
    /\ now = 0
    /\ key \in Keys
    /\ slot = EmptySlot
    /\ CallersAtRest
    /\ xchg = [resp |-> Response("error", CREATED, "error", NoBody), out |-> NoResult]
    /\ server = "any"
    /\ policy = "any"
    /\ app = NewApp(12345, UserAgent)
    /\ inst = NoInstallation
    /\ sent = <<>>
    /\ minted = 0
    /\ result = NoOutcome
    /\ log = {CreatingApp(app.app_id, app.user_agent)}
    /\ JwtAtRest /\ WireAtRest

\* GitHubAppAuthenticator::with_client
with_client(client) ==
    /\ app' = [app EXCEPT !.inner = client]
    /\ UNCHANGED <<now, key, slot, callerVars, xchg, server, policy, inst, sent, minted, result, log,
                   jwtVars, wire>>

\* GitHubAppAuthenticator::with_base_uri
with_base_uri(base_endpoint) ==
    /\ app' = [app EXCEPT !.base_endpoint = base_endpoint]
    /\ UNCHANGED <<now, key, slot, callerVars, xchg, server, policy, inst, sent, minted, result, log,
                   jwtVars, wire>>

\* GitHubAppAuthenticator::installation_authenticator: new(self.clone(), installation_id)
installation_authenticator(installation_id) ==
    /\ inst' = NewInstallation(app, installation_id)
    /\ slot' = EmptySlot
    /\ UNCHANGED <<now, key, callerVars, xchg, server, policy, app, sent, minted, result, log,
                   jwtVars, wire>>

\* GitHubInstallationAuthenticator::into_refreshing
into_refreshing ==
    /\ inst.made /\ ~inst.refreshing
    /\ inst' = [inst EXCEPT !.refreshing = TRUE]
    /\ slot' = EmptySlot
    /\ UNCHANGED <<now, key, callerVars, xchg, server, policy, app, sent, minted, result, log,
                   jwtVars, wire>>

\* the client calls GitHubAppAuthenticator::generate_jwt(duration) itself
GenerateJwt(duration) ==
    /\ minted < MaxMints
    /\ LET jwt == generate_jwt(key) IN
       /\ minted' = IF jwt.ok THEN minted + 1 ELSE minted
       /\ result' = Outcome("generate_jwt", jwt, NoAnswer)
       /\ log' = generate_jwt_events(app, key, now, duration)
    /\ UNCHANGED <<now, key, slot, callerVars, xchg, server, policy, app, inst, sent, jwtVars, wire>>

\* GitHubInstallationAuthenticator::access_token(request), run to its end
PlainAccessToken ==
    /\ inst.made /\ ~inst.refreshing
    /\ minted < MaxMints
    /\ \E r \in ServerResponses(server, now) :
         LET jwt == generate_jwt(key)
             out == request_token(key, r)
         IN  /\ log' = request_token_events(inst.app, key, now, r)
             /\ IF jwt.ok
                THEN /\ minted' = minted + 1
                     /\ sent' = send(sent, Request(inst, Jwt(key, minted + 1, JwtValiditySeconds)), r)
                     /\ result' = Outcome("access_token", PlainResult(out), r)
                ELSE /\ result' = Outcome("access_token", PlainResult(out), NoAnswer)
                     /\ UNCHANGED <<minted, sent>>
    /\ UNCHANGED <<now, key, slot, callerVars, xchg, server, policy, app, inst, jwtVars, wire>>

\* RefreshingGitHubInstallationAuthenticator::access_token(), run to its end with no
\* other caller
RefreshingAccessToken ==
    /\ inst.made /\ inst.refreshing
    /\ IF token_expired(slot, now)
       THEN /\ minted < MaxMints
            /\ \E r \in ServerResponses(server, now) :
                 LET jwt == generate_jwt(key)
                     out == request_token(key, r)
                 IN  /\ log' = request_token_events(inst.app, key, now, r)
                     /\ IF jwt.ok
                        THEN /\ minted' = minted + 1
                             /\ sent' = send(sent, Request(inst, Jwt(key, minted + 1,
                                                                     JwtValiditySeconds)), r)
                        ELSE UNCHANGED <<minted, sent>>
                     /\ IF out.ok
                        THEN /\ slot' = Stored(out)
                             /\ result' = Outcome("refreshing", Ok(slot'.access_token, 0), r)
                        ELSE /\ slot' = OnFailure(slot)
                             /\ result' = Outcome("refreshing", Err(out.err, out.status),
                                                   IF jwt.ok THEN r ELSE NoAnswer)
       ELSE /\ result' = Outcome("refreshing", Ok(slot.access_token, 0), NoAnswer)
            /\ UNCHANGED <<slot, minted, sent, log>>
    /\ UNCHANGED <<now, key, callerVars, xchg, server, policy, app, inst, jwtVars, wire>>

NextApp ==
    \/ \E client \in Clients : with_client(client)
    \/ \E base_endpoint \in Bases : with_base_uri(base_endpoint)
    \/ \E installation_id \in InstallationIds : installation_authenticator(installation_id)
    \/ into_refreshing
    \/ \E duration \in Durations : GenerateJwt(duration)
    \/ PlainAccessToken
    \/ RefreshingAccessToken
    \/ Tick

SpecApp == InitApp /\ [][NextApp]_vars

(* ----------------------- one generate_jwt() call ------------------------ *)
\* app.generate_jwt(duration) is entered; the clock counts seconds
InitJwt ==
    /\ now = 0
    /\ key \in Keys
    /\ slot = EmptySlot
    /\ CallersAtRest
    /\ xchg = [resp |-> Response("error", CREATED, "error", NoBody), out |-> NoResult]
    /\ server = "any"
    /\ policy = "any"
    /\ AppAtRest /\ WireAtRest
    /\ secs \in 0..1
    /\ claims \in {Claims("start", id, d, 0, 0, 0, NoResult) : id \in AppIds, d \in Durations}

\* iat: Utc::now().timestamp()
ReadIat ==
    /\ claims.pc = "start"
    /\ claims' = [claims EXCEPT !.pc = "iat", !.iat = secs]
    /\ UNCHANGED <<now, key, slot, callerVars, xchg, server, policy, appVars, secs, wire>>

\* exp: Utc::now().add(duration).timestamp()
ReadExp ==
    /\ claims.pc = "iat"
    /\ claims' = [claims EXCEPT !.pc = "exp", !.exp = secs + claims.duration]
    /\ UNCHANGED <<now, key, slot, callerVars, xchg, server, policy, appVars, secs, wire>>

\* iss: self.app_id, then jsonwebtoken::encode with the key parsed from the PEM bytes
Encode ==
    /\ claims.pc = "exp"
    /\ claims' = [claims EXCEPT !.pc = "done", !.iss = claims.app_id, !.out = generate_jwt(key)]
    /\ UNCHANGED <<now, key, slot, callerVars, xchg, server, policy, appVars, secs, wire>>

\* the wall clock passes a second boundary
TickSecond ==
    /\ secs < MaxSecs
    /\ secs' = secs + 1
    /\ UNCHANGED <<now, key, slot, callerVars, xchg, server, policy, appVars, claims, wire>>

NextJwt == ReadIat \/ ReadExp \/ Encode \/ TickSecond

SpecJwt == InitJwt /\ [][NextJwt]_vars

(* ------------------- one token request on the wire ---------------------- *)
InitWire ==
    /\ now = 0
    /\ key = "rsa-2048-pem"
    /\ slot = EmptySlot
    /\ CallersAtRest
    /\ xchg = [resp |-> Response("error", CREATED, "error", NoBody), out |-> NoResult]
    /\ server = "any"
    /\ policy = "any"
    /\ AppAtRest /\ JwtAtRest
    /\ wire \in {[request |-> q, done |-> FALSE, body |-> <<>>] : q \in TokenRequests}

\* RequestBuilder::json(request): the request serialized into the body
Serialize ==
    /\ ~wire.done
    /\ wire' = [wire EXCEPT !.done = TRUE, !.body = ser_token_request(wire.request)]
    /\ UNCHANGED <<now, key, slot, callerVars, xchg, server, policy, appVars, jwtVars>>

NextWire == Serialize

SpecWire == InitWire /\ [][NextWire]_vars

(* ------------------------------- claims -------------------------------- *)
\* a call of c returns to its caller in this step, with a value or an error
Returns(c) == pc[c] # "idle" /\ pc'[c] = "idle" /\ ret'[c] # Cancelled
\* the future of c's call is dropped in this step
Dropped(c) == pc[c] # "idle" /\ pc'[c] = "idle" /\ ret'[c] = Cancelled
\* the slot holds one response's token together with the same response's adjusted expiry
Coherent(s) ==
    \/ s = EmptySlot
    \/ /\ s.some
       /\ s.tokFrom = s.expFrom
       /\ s.access_token = s.tokFrom.token
       /\ s.expires_at = s.expFrom.expires_at - SkewMinutes
Mintable == key = "rsa-2048-pem"

\* C1: of two successive calls of one caller that both find an unexpired token in the
\* slot, the second returns the token the first returned, and sends no request.
C1_CacheFreshness ==
    [][\A c \in Callers :
         (pc[c] = "reading" /\ Returns(c) /\ obs[c] = "valid" /\ prev[c] # NoToken)
            => (ret'[c] = Ok(prev[c], 0) /\ exch[c] = 0)]_vars

\* C2: a call that finds a token in the slot whose expiry is at or before the clock sends a
\* request at once and has sent exactly one request when it returns; and when the server
\* only issues tokens that expire within the skew margin, every call that returns from its
\* last line has sent exactly one request.
C2_RenewalOnExpiry ==
    [][\A c \in Callers :
         /\ (pc[c] = "checking" /\ pc'[c] # "checking" /\ slot.some /\ slot.expires_at <= now)
               => (pc'[c] = "awaiting" /\ exch'[c] = 1 /\ obs'[c] = "expired")
         /\ (Returns(c) /\ obs[c] = "expired") => exch[c] = 1
         /\ (Returns(c) /\ server = "short-lived" /\ Mintable) => exch[c] = 1]_vars
C2_Witness ==
    \E c \in Callers :
        /\ pc[c] = "awaiting" /\ obs[c] = "expired" /\ exch[c] = 1
        /\ server = "short-lived" /\ slot.some /\ slot.expires_at = now
        /\ \A d \in Callers \ {c} : pc[d] = "idle" /\ ret[d] = NoResult

\* C3: whenever the slot can be read and is not empty, its expiry is the expiry of a
\* response the server issued, less five minutes, and the staleness check lets a call go
\* to its last line exactly when that adjusted expiry is after the clock.
C3_SkewMargin ==
    /\ [](writer = NoCaller /\ slot.some =>
            /\ slot.expires_at = slot.expFrom.expires_at - SkewMinutes
            /\ slot.expFrom.token \in Tokens
            /\ \E t \in 0..now, l \in Leads : slot.expFrom.expires_at = t + l)
    /\ [][\A c \in Callers :
            (pc[c] = "checking" /\ pc'[c] # "checking") =>
                (pc'[c] = "final" <=>
                    (slot.some /\ slot.expFrom.expires_at - SkewMinutes > now))]_vars
C3_Witness ==
    \E c \in Callers :
        /\ pc[c] = "awaiting" /\ obs[c] = "expired"
        /\ writer = NoCaller /\ slot.some
        /\ slot.expFrom.expires_at > now
        /\ \A d \in Callers \ {c} : pc[d] = "idle"

\* C4: a call whose exchange fails returns an error of the exchange, with the status for
\* a status other than 201, and leaves the slot and the lock as they were without having
\* stored anything; and a call that finds the slot stale sends a request whatever the
\* calls before it returned.
C4_FailureLeavesCache ==
    [][\A c \in Callers :
         /\ (Returns(c) /\ pc[c] \in {"checking", "awaiting"}) =>
               /\ slot' = slot /\ writer' = writer /\ writer # c
               /\ wrote[c] = NoToken
               /\ ~ret'[c].ok
               /\ \/ ret'[c].err \in {"Client", "FailedToDecodeAccessTokenResponse",
                                      "FailedToParseKey", "FailedToGenerateJwt"}
                     /\ ret'[c].status = 0
                  \/ ret'[c].err = "InstallationRequestFailed"
                     /\ ret'[c].status \in Statuses \ {CREATED}
               /\ (pc[c] = "awaiting" <=> Mintable)
         /\ (pc[c] = "checking" /\ pc'[c] # "checking" /\ Mintable
               /\ (~slot.some \/ slot.expires_at <= now))
               => (pc'[c] = "awaiting" /\ exch'[c] = exch[c] + 1)]_vars
C4_Witness ==
    \E c \in Callers :
        /\ pc[c] = "idle" /\ ret[c] = Err("InstallationRequestFailed", 404)
        /\ slot.some /\ slot.expires_at <= now /\ Coherent(slot)
        /\ \A d \in Callers \ {c} : pc[d] = "idle" /\ ret[d] = NoResult

\* C5: a call that arrives while the token in the slot is unexpired returns that token and
\* sends no request, whatever the other callers do.
C5_ConcurrentHappyPath ==
    [][\A c \in Callers :
         (pc[c] = "reading" /\ Returns(c) /\ obs[c] = "valid")
            => (ret'[c] = Ok(seen[c], 0) /\ exch[c] = 0 /\ wrote[c] = NoToken)]_vars

\* C6: a caller whose request is in flight, or whose response has arrived and is not yet
\* stored, holds no guard of the lock; and each caller that stores, stores the token and
\* the adjusted expiry of its own response.
C6_NoLockAcrossExchange ==
    /\ [](\A c \in Callers :
            pc[c] \in {"awaiting", "store"} => (c \notin readers /\ writer # c))
    /\ [][\A c \in Callers :
            (pc[c] = "storing" /\ pc'[c] = "final") =>
                /\ slot'.access_token = res[c].token
                /\ slot'.expires_at = res[c].expires_at - SkewMinutes
                /\ slot'.some]_vars
C6_Witness ==
    \E c, d \in Callers :
        /\ c # d
        /\ pc[c] = "awaiting" /\ obs[c] \in {"empty", "expired"}
        /\ pc[d] = "awaiting" /\ obs[d] \in {"empty", "expired"}

C8_AtomicSlotWrites ==
    \A c \in Callers : pc[c] \in {"checking", "reading"} => Coherent(slot)
C8_Witness ==
    \E c, d \in Callers :
        /\ pc[c] = "reading" /\ pc[d] = "store"
        /\ slot.some /\ RespOf(res[d]) # slot.tokFrom

\* C9: a call is dropped only while it holds no guard and has stored nothing, dropping it
\* changes neither the slot nor the lock, and a caller with no call in progress holds no
\* guard and changes the slot in no later step.
C9_Cancellation ==
    /\ [](\A c \in Callers : pc[c] = "idle" => (c \notin readers /\ writer # c))
    /\ [][\A c \in Callers :
            /\ Dropped(c) =>
                  /\ slot' = slot /\ readers' = readers /\ writer' = writer
                  /\ c \notin readers /\ writer # c
                  /\ wrote[c] = NoToken
                  /\ Coherent(slot) \/ \E d \in Callers \ {c} : writer = d
            /\ (pc[c] = "idle" /\ slot' # slot) =>
                  \E d \in Callers \ {c} : pc[d] \in {"store", "storing"}]_vars
C9_Witness ==
    \E c, d \in Callers :
        /\ c # d
        /\ pc[c] = "idle" /\ ret[c] = Cancelled
        /\ pc[d] = "reading" /\ wrote[d] # NoToken /\ obs[d] = "expired"

\* C10: the outcome of an exchange follows from the response alone: a failed send gives
\* Client; a status other than 201 gives InstallationRequestFailed with that status,
\* whatever the body; 201 gives Client when the body cannot be read, the token and expiry
\* of the body when it decodes, and FailedToDecodeAccessTokenResponse when it does not.
C10_ExchangeOutcome ==
    (xchg.out # NoResult /\ Mintable) =>
        LET r == xchg.resp
            o == xchg.out
            decodes == r.body.json /\ r.body.token.k = "string"
                          /\ r.body.expires_at.k = "timestamp"
        IN  /\ r.send = "error" => o = Err("Client", 0)
            /\ (r.send = "ok" /\ r.status # 201) =>
                  o = Err("InstallationRequestFailed", r.status)
            /\ (r.send = "ok" /\ r.status = 201 /\ r.text = "error") => o = Err("Client", 0)
            /\ (r.send = "ok" /\ r.status = 201 /\ r.text = "ok" /\ decodes) =>
                  o = Ok(r.body.token.v, r.body.expires_at.v)
            /\ (r.send = "ok" /\ r.status = 201 /\ r.text = "ok" /\ ~decodes) =>
                  o = Err("FailedToDecodeAccessTokenResponse", 0)
C10_Witness ==
    /\ Mintable
    /\ xchg.resp.send = "ok" /\ xchg.resp.status = 200
    /\ xchg.resp.body.json /\ xchg.resp.body.token.k = "string"
    /\ xchg.resp.body.expires_at.k = "timestamp"
    /\ xchg.out = Err("InstallationRequestFailed", 200)

\* the response decodes to a token: it arrived, with status 201 and a readable, well-formed body
Decodes(r) ==
    /\ r.send = "ok" /\ r.status = 201 /\ r.text = "ok"
    /\ r.body.json /\ r.body.token.k = "string" /\ r.body.expires_at.k = "timestamp"

\* C11: a call of the plain access_token(request) whose JWT mint succeeds sends exactly one
\* request to its endpoint, whatever comes back, returns the token of the response to that
\* request or an error, and touches no cache; so a second call sends a second request.
C11_OneExchangePerCall ==
    [][PlainAccessToken =>
         /\ slot' = slot
         /\ IF generate_jwt(key).ok
            THEN /\ Len(sent') = Len(sent) + 1
                 /\ SubSeq(sent', 1, Len(sent)) = sent
                 /\ sent'[Len(sent')].url = inst.installation_api_endpoint
                 /\ result'.resp \in ServerResponses(server, now)
                 /\ IF Decodes(result'.resp)
                    THEN result'.out = Ok(result'.resp.body.token.v, 0)
                    ELSE ~result'.out.ok
            ELSE sent' = sent /\ ~result'.out.ok]_vars
C11_Witness ==
    /\ inst.made /\ ~inst.refreshing
    /\ Len(sent) = 2 /\ minted = 2
    /\ sent[1].url = sent[2].url
    /\ result.op = "access_token" /\ result.out = Ok("tok-b", 0)

\* C13: making an installation authenticator and turning it into a refreshing one are
\* always possible and report nothing, whatever the key; and with a key that does not
\* parse, every generate_jwt() and access_token() call has returned FailedToParseKey, no
\* request was sent, no JWT was signed and the slot is as it was made.
C13_LazyKeyValidation ==
    /\ [](/\ \A id \in InstallationIds : ENABLED installation_authenticator(id)
          /\ (inst.made /\ ~inst.refreshing) => ENABLED into_refreshing
          /\ key = "garbage" =>
                /\ sent = <<>> /\ minted = 0 /\ slot = EmptySlot
                /\ result.op # "none" => result.out = Err("FailedToParseKey", 0))
    /\ [][(into_refreshing \/ \E id \in InstallationIds : installation_authenticator(id))
            => (result' = result /\ log' = log /\ sent' = sent /\ minted' = minted)]_vars
C13_Witness ==
    /\ key = "garbage"
    /\ inst.made /\ inst.refreshing
    /\ result = Outcome("refreshing", Err("FailedToParseKey", 0), NoAnswer)

\* C14: every request is sent through the client that the app authenticator held when the
\* installation authenticator was made from it.
C14_ConfiguredClient ==
    [][Len(sent') > Len(sent) => sent'[Len(sent')].client = inst.app.inner]_vars

\* C12: a JWT that generate_jwt(duration) minted carries iss = app_id and exp - iat equal
\* to the duration, however the clock moved between the readings.
C12_JwtClaimShape ==
    (claims.pc = "done" /\ claims.out.ok) =>
        /\ claims.iss = claims.app_id
        /\ claims.exp - claims.iat = claims.duration

\* C15: the body holds "permissions" and "repositories" exactly when the request has them,
\* the permissions object holds a key exactly for each field that was set, and each value
\* is the lowercase name of the level set, within what the field admits.
C15_WireOmission ==
    wire.done =>
        LET q == wire.request
            b == wire.body
        IN  /\ DOMAIN b \subseteq {"permissions", "repositories"}
            /\ "permissions" \in DOMAIN b <=> q.permissions.some
            /\ "repositories" \in DOMAIN b <=> q.repositories.some
            /\ q.repositories.some => b["repositories"] = q.repositories.v
            /\ q.permissions.some =>
                  LET o == b["permissions"]
                      set == q.permissions.v
                  IN  /\ DOMAIN o \subseteq PermissionFields
                      /\ \A f \in PermissionFields : f \in DOMAIN o <=> set[f] # "None"
                      /\ \A f \in DOMAIN o :
                            /\ o[f] \in {"read", "write", "admin"}
                            /\ o[f] = "read" <=> set[f] = "Read"
                            /\ o[f] = "write" <=> set[f] = "Write"
                            /\ o[f] = "admin" <=> set[f] = "Admin"
                            /\ f = "organization_plan" => o[f] = "read"
                            /\ f = "workflows" => o[f] = "write"
                            /\ f \notin {"organization_plan", "workflows", "repository_projects",
                                         "organization_projects"} => o[f] \in {"read", "write"}
C15_Witness ==
    /\ wire.done
    /\ wire.request.permissions.some /\ ~wire.request.repositories.some
    /\ DOMAIN wire.body = {"permissions"}
    /\ DOMAIN wire.body["permissions"] = {"workflows", "repository_projects"}
    /\ wire.body["permissions"]["repository_projects"] = "admin"

\* the private key bytes, the signed JWT and the issued access tokens
Secrets == Keys \cup Tokens \cup {generate_jwt("rsa-2048-pem").token}
Mentions(rendering) == \E i \in DOMAIN rendering : rendering[i] \in Secrets
\* the response r with another token in its body, where it has one
WithToken(r, t) == [r EXCEPT !.body.token.v = IF @ \in Tokens THEN t ELSE @]

C17_ReturnsOwnToken ==
    [][\A c \in Callers :
         (pc[c] = "reading" /\ Returns(c) /\ wrote[c] # NoToken)
            => ret'[c] = Ok(wrote[c], 0)]_vars

\* C18: at the final read of a call that found the token in the slot unexpired, the slot
\* holds the access_token that the check looked at.
C18_HitReadsCheckedToken ==
    \A c \in Callers :
        (pc[c] = "reading" /\ obs[c] = "valid") => (slot.some /\ slot.access_token = seen[c])

\* C19: the slot changes only when a caller stores; a store begins only on a slot that is
\* empty or holds a token whose cached expiry is at or before the clock; and a slot that
\* holds a token never becomes empty.
C19_SlotTransitions ==
    [][/\ \A c \in Callers :
            (pc[c] = "store" /\ pc'[c] = "storing") => (~slot.some \/ slot.expires_at <= now)
       /\ slot.some => slot'.some
       /\ slot' # slot => \E c \in Callers : pc[c] \in {"store", "storing"} /\ pc'[c] # pc[c]]_vars

C21_EndpointFixed ==
    [][/\ \A id \in InstallationIds :
            installation_authenticator(id) =>
                /\ inst'.installation_api_endpoint
                      = <<app.base_endpoint, "/app/installations/", id, "/access_tokens">>
                /\ inst'.app = app
       /\ ((\E b \in Bases : with_base_uri(b)) \/ (\E c \in Clients : with_client(c))) =>
            inst' = inst
       /\ into_refreshing =>
            /\ inst'.app = inst.app
            /\ inst'.installation_api_endpoint = inst.installation_api_endpoint
       /\ Len(sent') > Len(sent) =>
            /\ inst' = inst
            /\ sent'[Len(sent')].url = inst.installation_api_endpoint
            /\ sent'[Len(sent')].url[1] = inst.app.base_endpoint
            /\ sent'[Len(sent')].user_agent = inst.app.user_agent
       /\ key' = key]_vars
C21_Witness ==
    /\ inst.made
    /\ inst.installation_api_endpoint
          = <<"http://mock.test", "/app/installations/", 67890, "/access_tokens">>
    /\ app.base_endpoint = GITHUB_API_BASE
    /\ app.inner # inst.app.inner
    /\ Len(sent) = 2
    /\ sent[1].url[1] = GITHUB_API_BASE
    /\ sent[2].url = inst.installation_api_endpoint
    /\ result.op = "access_token"

\* C22: whenever a call holds the read guard of its final read the slot is not empty, and
\* no call has ended in a panic; the write guard is held only by a caller that is moving
\* its own decoded response into the slot, whose next step cannot fail, cannot be dropped
\* and releases the guard, so the lock is never left poisoned.
C22_NoPanic ==
    /\ [](/\ \A c \in Callers :
              /\ pc[c] = "reading" => slot.some
              /\ ret[c] # Panicked
              /\ pc[c] = "storing" <=> writer = c
          /\ writer # NoCaller =>
                /\ res[writer].ok
                /\ pc[writer] \notin SuspensionPoints
                /\ ENABLED StoreFinish(writer))
    /\ [][\A c \in Callers :
            /\ (pc[c] = "storing" /\ pc'[c] # "storing") =>
                  (pc'[c] = "final" /\ writer' = NoCaller /\ slot'.some)
            /\ (pc[c] = "reading" /\ pc'[c] # "reading") => ret'[c].ok]_vars
C22_Witness ==
    \E c, d \in Callers :
        /\ c # d
        /\ pc[c] = "reading" /\ obs[c] = "valid" /\ slot.some
        /\ pc[d] = "idle" /\ ret[d] = Err("FailedToDecodeAccessTokenResponse", 0)

====
